---- MODULE Spec2Model ----
(***************************************************************************)
(* Model of src/src/gas.ts: class GasProvider.                             *)
(*                                                                         *)
(*   - the relay client: prepareRelayRequest (the inherited _nextId        *)
(*     counter), request (copy of the connection info, the two awaited     *)
(*     signer calls, the header merge, the hand-over to fetchJson) and     *)
(*     fetchBlocksApi, run by concurrent asynchronous callers on one       *)
(*     JavaScript event loop: a step of the model is the code that runs    *)
(*     between two suspension points (await);                              *)
(*   - the pure functions getMaxBaseFeeInFutureBlock,                      *)
(*     getBaseFeeInNextBlock and calculateBundlePricing, on ethers         *)
(*     BigNumber arithmetic (arbitrary precision, div truncates toward     *)
(*     zero and throws on a zero divisor).                                 *)
(***************************************************************************)
EXTENDS Integers, Sequences, FiniteSets, TLC

VARIABLES
    nextId,          \* this._nextId (inherited from JsonRpcProvider)
    connectionInfo,  \* this.connectionInfo: [url, headers]
    signerKey,       \* the key the authSigner currently signs with
    pc,              \* per caller: where its asynchronous call is suspended
    prepared,        \* per caller: the envelope it last got from prepareRelayRequest
    frame,           \* per caller: the locals of its running request()/fetchBlocksApi()
    outcome,         \* per caller: how its last asynchronous call settled
    calls,           \* number of request()/fetchBlocksApi() calls started so far
    issued,          \* history: the ids prepareRelayRequest returned, in call order
    signerLog,       \* history: every settled signer call
    sent,            \* history: every invocation of the transport fetchJson
    configured,      \* history: the connection info given to the constructor
    call             \* a call of a pure function: its arguments, then its result

vars == <<nextId, connectionInfo, signerKey, pc, prepared, frame, outcome,
          calls, issued, signerLog, sent, configured, call>>

clientVars == <<nextId, connectionInfo, signerKey, pc, prepared, frame, outcome,
                calls, issued, signerLog, sent, configured>>

----------------------------------------------------------------------------
(* Bounds of the model *)

MaxPrepared == 2     \* prepareRelayRequest calls explored
MaxCalls == 2        \* request()/fetchBlocksApi() calls explored
MaxFee == 16         \* base fees 0..MaxFee
MaxGas == 6          \* gas used and gas limits 0..MaxGas
MaxBlocks == 3       \* blocksInFuture 0..MaxBlocks
MaxRecords == 2      \* transaction records per bundle

----------------------------------------------------------------------------
(* Values *)

Callers == {"c1", "c2"}

Methods == {"eth_sendBundle"}

Keys == {"k1", "k2"}

SignerErrors == {"SIGNER_REJECTED"}

TransportErrors == {"NETWORK_ERROR"}

Responses == {"relay-result"}

BlockNumbers == {7}

SIG == "X-Flashbots-Signature"

NoHeaders == [k \in {} |-> <<>>]

NoEnvelope == [method |-> "none", id |-> -1]

NoFrame == [rid |-> 0, request |-> <<>>, copy |-> [url |-> <<>>, headers |-> NoHeaders],
            address |-> <<>>]

NoOutcome == [rid |-> 0, state |-> "none", value |-> "none"]

\* a signature header left in the configuration by the caller
StaleSignature == <<"0x", "k0", ":", "sig", "k0", "keccak256", "old", 0>>

\* the headers a caller may configure: none, or headers that already hold the
\* key X-Flashbots-Signature beside another one
HeaderChoices ==
    { NoHeaders,
      [k \in {"Content-Type", SIG} |->
          IF k = SIG THEN StaleSignature ELSE <<"application/json">>] }

NoCall == [fn |-> "none", args |-> <<>>, done |-> FALSE, threw |-> FALSE, value |-> 0]

----------------------------------------------------------------------------
(* Helpers of request() *)

\* JSON.stringify of an envelope, as the callers of request() pass it
Serialize(env) == <<env.method, env.id>>

\* id(request): keccak256 of the UTF-8 bytes of the request string
Id(request) == <<"keccak256">> \o request

\* authSigner.getAddress() under key k
AddressOf(k) == <<"0x", k>>

\* authSigner.signMessage(digest) under key k
SignMessage(k, digest) == <<"sig", k>> \o digest

\* `${address}:${signature}`
HeaderValue(address, signature) == address \o <<":">> \o signature

\* { ...first, ...second }: the keys of both, the later spread winning
Spread(first, second) ==
    [k \in (DOMAIN first) \cup (DOMAIN second) |->
        IF k \in DOMAIN second THEN second[k] ELSE first[k]]

\* variant: { ...stored.headers, 'X-Flashbots-Signature': value }
RequestHeadersSignatureLast(value, stored) ==
    Spread(stored.headers, [k \in {SIG} |-> value])

\* { 'X-Flashbots-Signature': value, ...stored.headers }
RequestHeaders(value, stored) ==
    Spread([k \in {SIG} |-> value], stored.headers)

\* variant: `connectionInfo = this.connectionInfo`, an alias instead of a copy
StoredAfterAssignToAlias(stored, headers) == [stored EXCEPT !.headers = headers]

\* this.connectionInfo after `connectionInfo.headers = headers` was executed on
\* the local `connectionInfo = { ...this.connectionInfo }`: a copy, so the stored
\* object does not change
StoredAfterAssign(stored, headers) == stored

----------------------------------------------------------------------------
(* State after construction *)

\* _nextId starts at 42 in the JsonRpcProvider the class extends
InitClient ==
    /\ nextId = 42
    /\ \E h \in HeaderChoices :
          /\ connectionInfo = [url |-> <<"relay">>, headers |-> h]
          /\ configured = [url |-> <<"relay">>, headers |-> h]
    /\ signerKey = "k1"
    /\ pc = [c \in Callers |-> "idle"]
    /\ prepared = [c \in Callers |-> NoEnvelope]
    /\ frame = [c \in Callers |-> NoFrame]
    /\ outcome = [c \in Callers |-> NoOutcome]
    /\ calls = 0
    /\ issued = <<>>
    /\ signerLog = {}
    /\ sent = {}

Init ==
    /\ InitClient
    /\ call = NoCall

----------------------------------------------------------------------------
(* The relay client *)

\* variant: `this._nextId`, the increment forgotten
NoIncrement(n) == [value |-> n, next |-> n]

\* `this._nextId++`: the value the expression yields and the counter afterwards
PostIncrement(n) == [value |-> n, next |-> n + 1]

\* prepareRelayRequest(method, params): synchronous, so one step
PrepareRelayRequest(c, method) ==
    /\ pc[c] = "idle"
    /\ Len(issued) < MaxPrepared
    /\ LET inc == PostIncrement(nextId) IN
          /\ prepared' = [prepared EXCEPT ![c] = [method |-> method, id |-> inc.value]]
          /\ issued' = Append(issued, inc.value)
          /\ nextId' = inc.next
    /\ UNCHANGED <<connectionInfo, signerKey, pc, frame, outcome, calls,
                   signerLog, sent, configured, call>>

\* the string a caller passes to request(): its prepared envelope, serialized,
\* or another string when it has prepared none
RequestStrings(c) ==
    IF prepared[c] = NoEnvelope THEN {<<"raw", 0>>} ELSE {Serialize(prepared[c])}

\* request(request), up to its first suspension: the shallow copy of
\* this.connectionInfo, then the call of authSigner.getAddress()
RequestStart(c, request) ==
    /\ pc[c] = "idle"
    /\ calls < MaxCalls
    /\ calls' = calls + 1
    /\ frame' = [frame EXCEPT ![c] = [rid |-> calls + 1, request |-> request,
                                      copy |-> connectionInfo, address |-> <<>>]]
    /\ pc' = [pc EXCEPT ![c] = "getAddress"]
    /\ outcome' = [outcome EXCEPT ![c] = NoOutcome]
    /\ UNCHANGED <<nextId, connectionInfo, signerKey, prepared, issued,
                   signerLog, sent, configured, call>>

\* getAddress() fulfilled: request() resumes, computes id(request) and calls
\* authSigner.signMessage(id(request))
GetAddressOk(c) ==
    /\ pc[c] = "getAddress"
    /\ LET a == AddressOf(signerKey) IN
          /\ frame' = [frame EXCEPT ![c].address = a]
          /\ signerLog' = signerLog \cup
                {[rid |-> frame[c].rid, op |-> "getAddress", ok |-> TRUE,
                  arg |-> <<>>, value |-> a, error |-> "none"]}
    /\ pc' = [pc EXCEPT ![c] = "signMessage"]
    /\ UNCHANGED <<nextId, connectionInfo, signerKey, prepared, outcome, calls,
                   issued, sent, configured, call>>

\* getAddress() rejected with e: the await throws, request() rejects with e
GetAddressFail(c, e) ==
    /\ pc[c] = "getAddress"
    /\ signerLog' = signerLog \cup
          {[rid |-> frame[c].rid, op |-> "getAddress", ok |-> FALSE,
            arg |-> <<>>, value |-> <<>>, error |-> e]}
    /\ outcome' = [outcome EXCEPT ![c] = [rid |-> frame[c].rid, state |-> "rejected", value |-> e]]
    /\ pc' = [pc EXCEPT ![c] = "idle"]
    /\ frame' = [frame EXCEPT ![c] = NoFrame]
    /\ UNCHANGED <<nextId, connectionInfo, signerKey, prepared, calls, issued,
                   sent, configured, call>>

\* signMessage() fulfilled: request() resumes, builds the headers on its copy
\* and calls fetchJson(connectionInfo, request)
SignMessageOk(c) ==
    /\ pc[c] = "signMessage"
    /\ LET digest == Id(frame[c].request)
           signature == SignMessage(signerKey, digest)
           headers == RequestHeaders(HeaderValue(frame[c].address, signature),
                                     connectionInfo)
           copy == [frame[c].copy EXCEPT !.headers = headers]
       IN
          /\ signerLog' = signerLog \cup
                {[rid |-> frame[c].rid, op |-> "signMessage", ok |-> TRUE,
                  arg |-> digest, value |-> signature, error |-> "none"]}
          /\ frame' = [frame EXCEPT ![c].copy = copy]
          /\ connectionInfo' = StoredAfterAssign(connectionInfo, headers)
          /\ sent' = sent \cup
                {[rid |-> frame[c].rid, kind |-> "relay", conn |-> copy,
                  body |-> frame[c].request]}
    /\ pc' = [pc EXCEPT ![c] = "fetchJson"]
    /\ UNCHANGED <<nextId, signerKey, prepared, outcome, calls, issued,
                   configured, call>>

\* variant: the rejection is caught and the request is sent without a signature
SignMessageFailSendsUnsigned(c, e) ==
    /\ pc[c] = "signMessage"
    /\ signerLog' = signerLog \cup
          {[rid |-> frame[c].rid, op |-> "signMessage", ok |-> FALSE,
            arg |-> Id(frame[c].request), value |-> <<>>, error |-> e]}
    /\ sent' = sent \cup
          {[rid |-> frame[c].rid, kind |-> "relay", conn |-> frame[c].copy,
            body |-> frame[c].request]}
    /\ pc' = [pc EXCEPT ![c] = "fetchJson"]
    /\ UNCHANGED <<nextId, connectionInfo, signerKey, prepared, frame, outcome,
                   calls, issued, configured, call>>

\* signMessage() rejected with e: request() rejects with e
SignMessageFail(c, e) ==
    /\ pc[c] = "signMessage"
    /\ signerLog' = signerLog \cup
          {[rid |-> frame[c].rid, op |-> "signMessage", ok |-> FALSE,
            arg |-> Id(frame[c].request), value |-> <<>>, error |-> e]}
    /\ outcome' = [outcome EXCEPT ![c] = [rid |-> frame[c].rid, state |-> "rejected", value |-> e]]
    /\ pc' = [pc EXCEPT ![c] = "idle"]
    /\ frame' = [frame EXCEPT ![c] = NoFrame]
    /\ UNCHANGED <<nextId, connectionInfo, signerKey, prepared, calls, issued,
                   sent, configured, call>>

\* fetchBlocksApi(blockNumber): fetchJson(url) without connection info or body
FetchBlocksApi(c, blockNumber) ==
    /\ pc[c] = "idle"
    /\ calls < MaxCalls
    /\ calls' = calls + 1
    /\ frame' = [frame EXCEPT ![c] = [NoFrame EXCEPT !.rid = calls + 1]]
    /\ sent' = sent \cup
          {[rid |-> calls + 1, kind |-> "blocks",
            conn |-> [url |-> <<"blocks", blockNumber>>, headers |-> NoHeaders],
            body |-> <<>>]}
    /\ pc' = [pc EXCEPT ![c] = "fetchJson"]
    /\ outcome' = [outcome EXCEPT ![c] = NoOutcome]
    /\ UNCHANGED <<nextId, connectionInfo, signerKey, prepared, issued,
                   signerLog, configured, call>>

\* the promise fetchJson returned is fulfilled: it is what the call returns
FetchJsonOk(c, r) ==
    /\ pc[c] = "fetchJson"
    /\ outcome' = [outcome EXCEPT ![c] = [rid |-> frame[c].rid, state |-> "fulfilled", value |-> r]]
    /\ pc' = [pc EXCEPT ![c] = "idle"]
    /\ frame' = [frame EXCEPT ![c] = NoFrame]
    /\ UNCHANGED <<nextId, connectionInfo, signerKey, prepared, calls, issued,
                   signerLog, sent, configured, call>>

\* the promise fetchJson returned is rejected with e
FetchJsonFail(c, e) ==
    /\ pc[c] = "fetchJson"
    /\ outcome' = [outcome EXCEPT ![c] = [rid |-> frame[c].rid, state |-> "rejected", value |-> e]]
    /\ pc' = [pc EXCEPT ![c] = "idle"]
    /\ frame' = [frame EXCEPT ![c] = NoFrame]
    /\ UNCHANGED <<nextId, connectionInfo, signerKey, prepared, calls, issued,
                   signerLog, sent, configured, call>>

\* the signer rotates its key between two calls (the signer is a collaborator;
\* one rotation, from the first key to another, is explored)
RotateKey(k) ==
    /\ signerKey = "k1"
    /\ k # signerKey
    /\ signerKey' = k
    /\ UNCHANGED <<nextId, connectionInfo, pc, prepared, frame, outcome, calls,
                   issued, signerLog, sent, configured, call>>

Next ==
    \/ \E c \in Callers, m \in Methods : PrepareRelayRequest(c, m)
    \/ \E c \in Callers : \E r \in RequestStrings(c) : RequestStart(c, r)
    \/ \E c \in Callers : GetAddressOk(c)
    \/ \E c \in Callers, e \in SignerErrors : GetAddressFail(c, e)
    \/ \E c \in Callers : SignMessageOk(c)
    \/ \E c \in Callers, e \in SignerErrors : SignMessageFail(c, e)
    \/ \E c \in Callers, n \in BlockNumbers : FetchBlocksApi(c, n)
    \/ \E c \in Callers, r \in Responses : FetchJsonOk(c, r)
    \/ \E c \in Callers, e \in TransportErrors : FetchJsonFail(c, e)
    \/ \E k \in Keys : RotateKey(k)

Spec == Init /\ [][Next]_vars

----------------------------------------------------------------------------
(* BigNumber arithmetic *)

\* BigNumber.div on a non-zero divisor: the quotient truncated toward zero
TruncDiv(a, b) ==
    LET abs(x) == IF x < 0 THEN -x ELSE x
        q == abs(a) \div abs(b)
    IN IF (a < 0) = (b < 0) THEN q ELSE -q

\* BigNumber.div: throws "division-by-zero" on a zero divisor
BNDiv(a, b) ==
    IF b = 0 THEN [threw |-> TRUE, value |-> 0]
    ELSE [threw |-> FALSE, value |-> TruncDiv(a, b)]

BASE_FEE_MAX_CHANGE_DENOMINATOR == 8

----------------------------------------------------------------------------
(* Fee projection *)

\* variant: sub(1) for add(1)
ProjectStepMinusOne(maxBaseFee) == TruncDiv(maxBaseFee * 1125, 1000) - 1

\* one iteration: maxBaseFee.mul(1125).div(1000).add(1)
ProjectStep(maxBaseFee) == TruncDiv(maxBaseFee * 1125, 1000) + 1

RECURSIVE ProjectLoop(_, _, _)
\* for (let i = 0; i < blocksInFuture; i++) maxBaseFee = step(maxBaseFee)
ProjectLoop(maxBaseFee, i, blocksInFuture) ==
    IF i < blocksInFuture
    THEN ProjectLoop(ProjectStep(maxBaseFee), i + 1, blocksInFuture)
    ELSE maxBaseFee

getMaxBaseFeeInFutureBlock(baseFee, blocksInFuture) ==
    ProjectLoop(baseFee, 0, blocksInFuture)

\* variant: the division by BASE_FEE_MAX_CHANGE_DENOMINATOR left out
BaseFeePerGasDeltaUndivided(currentBaseFeePerGas, gasUsedDelta, currentGasTarget) ==
    BNDiv(currentBaseFeePerGas * gasUsedDelta, currentGasTarget)

\* currentBaseFeePerGas.mul(gasUsedDelta).div(currentGasTarget).div(8)
BaseFeePerGasDelta(currentBaseFeePerGas, gasUsedDelta, currentGasTarget) ==
    LET first == BNDiv(currentBaseFeePerGas * gasUsedDelta, currentGasTarget)
    IN IF first.threw THEN first
       ELSE BNDiv(first.value, BASE_FEE_MAX_CHANGE_DENOMINATOR)

\* the result: [threw, value]
getBaseFeeInNextBlock(currentBaseFeePerGas, currentGasUsed, currentGasLimit) ==
    LET currentGasTarget == TruncDiv(currentGasLimit, 2) IN
    IF currentGasUsed = currentGasTarget
    THEN [threw |-> FALSE, value |-> currentBaseFeePerGas]
    ELSE IF currentGasUsed > currentGasTarget
    THEN LET delta == BaseFeePerGasDelta(currentBaseFeePerGas,
                          currentGasUsed - currentGasTarget, currentGasTarget)
         IN IF delta.threw THEN delta
            ELSE [threw |-> FALSE, value |-> currentBaseFeePerGas + delta.value]
    ELSE LET delta == BaseFeePerGasDelta(currentBaseFeePerGas,
                          currentGasTarget - currentGasUsed, currentGasTarget)
         IN IF delta.threw THEN delta
            ELSE [threw |-> FALSE, value |-> currentBaseFeePerGas - delta.value]

----------------------------------------------------------------------------
(* Bundle pricing *)

\* variant: the priority fee clamped at zero
PriorityFeeClamped(gasPricePaidBySearcher, baseFee) ==
    IF gasPricePaidBySearcher > baseFee THEN gasPricePaidBySearcher - baseFee ELSE 0

\* gasPricePaidBySearcher.sub(baseFee)
PriorityFee(gasPricePaidBySearcher, baseFee) == gasPricePaidBySearcher - baseFee

\* 'coinbase_transfer' in transactionDetail ? ... : BigNumber.from(0)
CoinbaseTransferOf(transactionDetail) ==
    IF "coinbase_transfer" \in DOMAIN transactionDetail
    THEN transactionDetail.coinbase_transfer
    ELSE 0

\* the reducer
Reducer(acc, transactionDetail, baseFee) ==
    LET gasUsed == transactionDetail.gas_used
        gasPricePaidBySearcher == transactionDetail.gas_price
        priorityFeeReceivedByMiner == PriorityFee(gasPricePaidBySearcher, baseFee)
    IN [gasUsed |-> acc.gasUsed + gasUsed,
        gasFeesPaidBySearcher |->
            acc.gasFeesPaidBySearcher + gasPricePaidBySearcher * gasUsed,
        priorityFeesReceivedByMiner |->
            acc.priorityFeesReceivedByMiner + priorityFeeReceivedByMiner * gasUsed,
        coinbase_transfer |-> acc.coinbase_transfer + CoinbaseTransferOf(transactionDetail)]

RECURSIVE Reduce(_, _, _, _)
\* bundleTransactions.reduce(reducer, initial), from index i on
Reduce(bundleTransactions, i, acc, baseFee) ==
    IF i > Len(bundleTransactions) THEN acc
    ELSE Reduce(bundleTransactions, i + 1,
                Reducer(acc, bundleTransactions[i], baseFee), baseFee)

\* variant: the division without its guard
EffectiveFeeUnguarded(total, gasUsed) == BNDiv(total, gasUsed)

\* gasUsed > 0 ? total.div(gasUsed) : BigNumber.from(0)
EffectiveFee(total, gasUsed) ==
    IF gasUsed > 0 THEN BNDiv(total, gasUsed)
    ELSE [threw |-> FALSE, value |-> 0]

\* the result: [threw, value], value the returned object
calculateBundlePricing(bundleTransactions, baseFee) ==
    LET bundleGasPricing ==
            Reduce(bundleTransactions, 1,
                   [gasUsed |-> 0, gasFeesPaidBySearcher |-> 0,
                    priorityFeesReceivedByMiner |-> 0, coinbase_transfer |-> 0],
                   baseFee)
        effectiveGasPriceToSearcher ==
            EffectiveFee(bundleGasPricing.coinbase_transfer
                             + bundleGasPricing.gasFeesPaidBySearcher,
                         bundleGasPricing.gasUsed)
        effectivePriorityFeeToMiner ==
            EffectiveFee(bundleGasPricing.coinbase_transfer
                             + bundleGasPricing.priorityFeesReceivedByMiner,
                         bundleGasPricing.gasUsed)
    IN [threw |-> effectiveGasPriceToSearcher.threw \/ effectivePriorityFeeToMiner.threw,
        value |->
           [gasUsed |-> bundleGasPricing.gasUsed,
            gasFeesPaidBySearcher |-> bundleGasPricing.gasFeesPaidBySearcher,
            priorityFeesReceivedByMiner |-> bundleGasPricing.priorityFeesReceivedByMiner,
            coinbase_transfer |-> bundleGasPricing.coinbase_transfer,
            txCount |-> Len(bundleTransactions),
            effectiveGasPriceToSearcher |-> effectiveGasPriceToSearcher.value,
            effectivePriorityFeeToMiner |-> effectivePriorityFeeToMiner.value]]

----------------------------------------------------------------------------
(* Calls of the pure functions, on inputs from bounded sets *)

GasUsedValues == {0, 1, 100}

GasPrices == {0, 50}

CoinbaseTransfers == {0, 7}

BaseFees == {0, 10, 60}

\* the transaction details of the blocks API, with or without coinbase_transfer
TransactionDetails ==
    [gas_used : GasUsedValues, gas_price : GasPrices, coinbase_transfer : CoinbaseTransfers]
    \cup [gas_used : GasUsedValues, gas_price : GasPrices]

Bundles == UNION {[1..n -> TransactionDetails] : n \in 0..MaxRecords}

\* a call about to be made
Pending(fn, args) ==
    [fn |-> fn, args |-> args, done |-> FALSE, threw |-> FALSE, value |-> 0]

PendingCalls ==
    {Pending("getMaxBaseFeeInFutureBlock", <<b, n>>) :
        b \in 0..MaxFee, n \in 0..MaxBlocks}
    \cup {Pending("getBaseFeeInNextBlock", <<f, u, l>>) :
        f \in 0..MaxFee, u \in 0..MaxGas, l \in 0..MaxGas}
    \cup {Pending("calculateBundlePricing", <<t, b>>) :
        t \in Bundles, b \in BaseFees}

\* the client as constructed, and one call of a pure function on any input
InitPure ==
    /\ InitClient
    /\ call \in PendingCalls

CallGetMaxBaseFeeInFutureBlock ==
    /\ call.fn = "getMaxBaseFeeInFutureBlock"
    /\ ~call.done
    /\ call' = [call EXCEPT !.done = TRUE,
                            !.value = getMaxBaseFeeInFutureBlock(call.args[1], call.args[2])]
    /\ UNCHANGED clientVars

CallGetBaseFeeInNextBlock ==
    /\ call.fn = "getBaseFeeInNextBlock"
    /\ ~call.done
    /\ LET r == getBaseFeeInNextBlock(call.args[1], call.args[2], call.args[3])
       IN call' = [call EXCEPT !.done = TRUE, !.threw = r.threw, !.value = r.value]
    /\ UNCHANGED clientVars

CallCalculateBundlePricing ==
    /\ call.fn = "calculateBundlePricing"
    /\ ~call.done
    /\ LET r == calculateBundlePricing(call.args[1], call.args[2])
       IN call' = [call EXCEPT !.done = TRUE, !.threw = r.threw, !.value = r.value]
    /\ UNCHANGED clientVars

PureNext ==
    \/ CallGetMaxBaseFeeInFutureBlock
    \/ CallGetBaseFeeInNextBlock
    \/ CallCalculateBundlePricing

SpecPure == InitPure /\ [][PureNext]_vars

----------------------------------------------------------------------------
(* Properties of the relay client, checked under Spec *)

RelaySent == {e \in sent : e.kind = "relay"}

\* the settled signer calls of request number rid
SignerCalls(rid, op) == {l \in signerLog : l.rid = rid /\ l.op = op}

IdsConsecutive ==
    /\ \A i \in 1..(Len(issued) - 1) : issued[i + 1] = issued[i] + 1
    /\ Len(issued) > 0 => nextId = issued[Len(issued)] + 1
    /\ \A c \in Callers :
          prepared[c] # NoEnvelope => \E i \in 1..Len(issued) : issued[i] = prepared[c].id

CounterStep ==
    \/ nextId' = nextId /\ issued' = issued
    \/ nextId' = nextId + 1 /\ issued' = Append(issued, nextId)

\* C1: the ids prepareRelayRequest returns are, in call order, consecutive (so
\* strictly increasing and pairwise distinct), the counter is one past the last
\* id returned, and every step either leaves the counter alone or is one
\* prepareRelayRequest call that returns the counter and adds exactly one to it.
C1_IdsConsecutive == [](IdsConsecutive) /\ [][CounterStep]_vars

\* two callers hold prepared envelopes while a request() of one of them is
\* suspended and nothing was sent yet
C1_Witness ==
    /\ Len(issued) >= 2
    /\ \A c \in Callers : prepared[c] # NoEnvelope
    /\ prepared["c1"].id # prepared["c2"].id
    /\ \E c \in Callers : pc[c] = "signMessage"

\* C2: every relay request handed to fetchJson has a fulfilled getAddress() and
\* a fulfilled signMessage() of that same request() call before it; a request()
\* call with a rejected signer call hands nothing to fetchJson and settles as
\* rejected with the signer's own error.
C2_SignedBeforeSent ==
    /\ \A e \in RelaySent :
          /\ \E a \in SignerCalls(e.rid, "getAddress") : a.ok
          /\ \E m \in SignerCalls(e.rid, "signMessage") : m.ok
    /\ \A l \in signerLog :
          ~l.ok =>
            /\ \A e \in sent : e.rid # l.rid
            /\ \A c \in Callers :
                  /\ frame[c].rid # l.rid
                  /\ outcome[c].rid = l.rid =>
                        outcome[c].state = "rejected" /\ outcome[c].value = l.error

\* one request() was rejected by signMessage() while another one was sent
C2_Witness ==
    /\ \E l \in signerLog :
          /\ ~l.ok
          /\ l.op = "signMessage"
          /\ \E c \in Callers : outcome[c].rid = l.rid
    /\ RelaySent # {}

\* C3: every relay request handed to fetchJson carries, under the key
\* X-Flashbots-Signature, "<address>:<signature>" with the address getAddress()
\* returned and the signature signMessage() returned for the digest of that
\* request's body, in that same request() call.
C3_EverySentRequestSigned ==
    \A e \in RelaySent :
        /\ SIG \in DOMAIN e.conn.headers
        /\ \E a \in SignerCalls(e.rid, "getAddress") :
           \E m \in SignerCalls(e.rid, "signMessage") :
              /\ a.ok /\ m.ok
              /\ m.arg = Id(e.body)
              /\ e.conn.headers[SIG] = HeaderValue(a.value, m.value)

\* C9: the headers handed to fetchJson are the configured headers, each with its
\* configured value, plus the key X-Flashbots-Signature; that key holds the
\* configured value when the configuration has the key, and otherwise the fresh
\* "<address>:<signature>" of that request() call.
C9_ConfiguredHeadersWin ==
    \A e \in RelaySent :
        /\ e.conn.url = configured.url
        /\ DOMAIN e.conn.headers = (DOMAIN configured.headers) \cup {SIG}
        /\ \A k \in DOMAIN configured.headers :
              e.conn.headers[k] = configured.headers[k]
        /\ SIG \notin DOMAIN configured.headers =>
              \E a \in SignerCalls(e.rid, "getAddress") :
              \E m \in SignerCalls(e.rid, "signMessage") :
                 /\ a.ok /\ m.ok
                 /\ m.arg = Id(e.body)
                 /\ e.conn.headers[SIG] = HeaderValue(a.value, m.value)

\* a request was sent from a client whose configuration holds the signature key
C9_Witness ==
    /\ SIG \in DOMAIN configured.headers
    /\ \E e \in RelaySent : e.conn.headers[SIG] = StaleSignature

\* every "<address>:<signature>" the signer's fulfilled calls can make up
ComputedHeaderValues(digests) ==
    {HeaderValue(a.value, m.value) :
        a \in {l \in signerLog : l.op = "getAddress" /\ l.ok},
        m \in {l \in signerLog : l.op = "signMessage" /\ l.ok /\ l.arg \in digests}}

AllDigests == {l.arg : l \in signerLog}

\* C10: the stored connection info is the one given to the constructor; no
\* stored header holds a computed signature header; a computed signature header
\* that reaches fetchJson was computed for the body it is sent with.
C10_StoredConnectionInfoUnchanged ==
    /\ connectionInfo = configured
    /\ \A k \in DOMAIN connectionInfo.headers :
          connectionInfo.headers[k] \notin ComputedHeaderValues(AllDigests)
    /\ \A e \in RelaySent :
          e.conn.headers[SIG] \notin ComputedHeaderValues(AllDigests \ {Id(e.body)})

\* two requests with different bodies were sent, one fulfilled, one rejected
C10_Witness ==
    /\ \E e1, e2 \in RelaySent : e1.body # e2.body
    /\ \E c \in Callers : outcome[c].state = "fulfilled"
    /\ \E c \in Callers : outcome[c].state = "rejected"

----------------------------------------------------------------------------
(* Properties of the pure functions, checked under SpecPure *)

Returned(fn) == call.fn = fn /\ call.done

\* C4 as stated: above the target the result is greater than the base fee, below
\* the target it is less (a call that throws is left aside).
C4_StrictChange ==
    Returned("getBaseFeeInNextBlock") =>
        LET f == call.args[1]
            gasUsed == call.args[2]
            target == call.args[3] \div 2
        IN /\ (gasUsed > target /\ ~call.threw) => call.value > f
           /\ gasUsed < target => (~call.threw /\ call.value < f)

\* C4, amended: above a target greater than 0 the result is at least the base
\* fee, and greater exactly when f * (gasUsed - target) >= 8 * target; above a
\* target of 0 the call throws; below the target the result is at most the base
\* fee, and less exactly when f * (target - gasUsed) >= 8 * target.
C4_WeakChange ==
    Returned("getBaseFeeInNextBlock") =>
        LET f == call.args[1]
            gasUsed == call.args[2]
            target == call.args[3] \div 2
        IN /\ gasUsed > target =>
                /\ call.threw <=> target = 0
                /\ ~call.threw =>
                      /\ call.value >= f
                      /\ call.value > f <=> f * (gasUsed - target) >= 8 * target
           /\ gasUsed < target =>
                /\ ~call.threw
                /\ call.value <= f
                /\ call.value < f <=> f * (target - gasUsed) >= 8 * target

\* a call above the target, with a positive base fee, that returns the base fee
C4_Witness ==
    /\ Returned("getBaseFeeInNextBlock")
    /\ call.args[1] > 0
    /\ call.args[2] > call.args[3] \div 2
    /\ ~call.threw
    /\ call.value = call.args[1]

\* C5: the projection of (b, n) is at least the projection of every (b1, n1)
\* with 0 <= b1 <= b and 0 <= n1 <= n; it is b for n = 0 and otherwise
\* floor(previous * 1125 / 1000) + 1 of the projection of (b, n - 1).
C5_Monotone ==
    Returned("getMaxBaseFeeInFutureBlock") =>
        LET b == call.args[1]
            n == call.args[2]
        IN /\ ~call.threw
           /\ \A b1 \in 0..b, n1 \in 0..n :
                 getMaxBaseFeeInFutureBlock(b1, n1) <= call.value
           /\ n = 0 => call.value = b
           /\ n > 0 =>
                 call.value = (getMaxBaseFeeInFutureBlock(b, n - 1) * 1125) \div 1000 + 1

\* a projection of a positive base fee over several blocks
C5_Witness ==
    /\ Returned("getMaxBaseFeeInFutureBlock")
    /\ call.args[1] >= 8
    /\ call.args[2] >= 2
    /\ call.value > call.args[1] + call.args[2]

RECURSIVE SeqSum(_)
SeqSum(q) == IF q = <<>> THEN 0 ELSE q[1] + SeqSum(Tail(q))

TotalGasUsed(records) == SeqSum([i \in 1..Len(records) |-> records[i].gas_used])

TotalGasFees(records) ==
    SeqSum([i \in 1..Len(records) |-> records[i].gas_price * records[i].gas_used])

TotalPriorityFees(records, baseFee) ==
    SeqSum([i \in 1..Len(records) |->
               (records[i].gas_price - baseFee) * records[i].gas_used])

TotalCoinbase(records) ==
    SeqSum([i \in 1..Len(records) |->
               IF "coinbase_transfer" \in DOMAIN records[i]
               THEN records[i].coinbase_transfer ELSE 0])

\* q is num / g by integer division truncating toward zero (g > 0)
IsQuotient(q, num, g) ==
    LET r == num - q * g
    IN IF num >= 0 THEN 0 <= r /\ r < g ELSE -g < r /\ r <= 0

\* C6: on a record list of total gas 0, the empty one included, the call does
\* not throw, both effective fees are 0 and txCount is the number of records.
C6_NoDivisionByZero ==
    (Returned("calculateBundlePricing") /\ TotalGasUsed(call.args[1]) = 0) =>
        /\ ~call.threw
        /\ call.value.effectiveGasPriceToSearcher = 0
        /\ call.value.effectivePriorityFeeToMiner = 0
        /\ call.value.txCount = Len(call.args[1])

\* two records of gas 0 with a positive gas price, coinbase transfer and base fee
C6_Witness ==
    /\ Returned("calculateBundlePricing")
    /\ Len(call.args[1]) = 2
    /\ TotalGasUsed(call.args[1]) = 0
    /\ TotalCoinbase(call.args[1]) > 0
    /\ TotalGasFees(call.args[1]) = 0
    /\ call.args[1][1].gas_price > 0
    /\ call.args[2] > 0

\* C7: the result holds the number of records, the sums of gasUsed, of
\* gasPricePaid * gasUsed and of (gasPricePaid - baseFee) * gasUsed (unclamped),
\* and, for a total gas above 0, the quotients of coinbase total + fees by the
\* total gas, truncated toward zero; the record {100, 50, 0} with base fee 10
\* gives 5000, 4000, 50 and 40.
C7_Aggregates ==
    Returned("calculateBundlePricing") =>
        LET records == call.args[1]
            baseFee == call.args[2]
            out == call.value
        IN /\ ~call.threw
           /\ out.txCount = Len(records)
           /\ out.gasUsed = TotalGasUsed(records)
           /\ out.gasFeesPaidBySearcher = TotalGasFees(records)
           /\ out.priorityFeesReceivedByMiner = TotalPriorityFees(records, baseFee)
           /\ TotalGasUsed(records) > 0 =>
                 /\ IsQuotient(out.effectiveGasPriceToSearcher,
                               TotalCoinbase(records) + TotalGasFees(records),
                               TotalGasUsed(records))
                 /\ IsQuotient(out.effectivePriorityFeeToMiner,
                               TotalCoinbase(records) + TotalPriorityFees(records, baseFee),
                               TotalGasUsed(records))
           /\ (records = <<[gas_used |-> 100, gas_price |-> 50, coinbase_transfer |-> 0]>>
                 /\ baseFee = 10) =>
                 /\ out.gasFeesPaidBySearcher = 5000
                 /\ out.priorityFeesReceivedByMiner = 4000
                 /\ out.effectiveGasPriceToSearcher = 50
                 /\ out.effectivePriorityFeeToMiner = 40

\* two records priced below the base fee: the priority fees and the effective
\* priority fee are negative
C7_Witness ==
    /\ Returned("calculateBundlePricing")
    /\ Len(call.args[1]) = 2
    /\ call.value.gasUsed = 101
    /\ call.value.priorityFeesReceivedByMiner < 0
    /\ call.value.effectivePriorityFeeToMiner < 0
    /\ call.value.coinbase_transfer > 0

\* C8: no call of the three functions on non-negative integers throws.
C8_NeverThrows == call.done => ~call.threw

====
